---- MODULE Spec2Model ----
(***************************************************************************)
(* data_processor.py: download the fuel-station document with a bounded    *)
(* retry loop, clean and filter the station records, and write them as a   *)
(* GeoJSON FeatureCollection.                                              *)
(*                                                                         *)
(* Python values are records [t, s, n, e]: t is the type tag, s the        *)
(* characters of a str (a sequence of one-character strings), n and e the  *)
(* mantissa and the number of decimals of a number.                        *)
(***************************************************************************)
EXTENDS Integers, Sequences, FiniteSets, TLC

\* ---------------------------------------------------------------- bounds
MaxRecords == 2   \* longest station list of a served document
MaxRuns == 2      \* how many times the program is run against the same server

\* ------------------------------------------------------------- constants
MAX_RETRIES == 5

PRECIOS_MAP ==
    << <<"Precio Gasolina 95 E5", "Precio_95E5">>,
       <<"Precio Gasolina 98 E5", "Precio_98E5">>,
       <<"Precio Gasoleo A", "Precio_GasoilA">>,
       <<"Precio Gasoleo B", "Precio_GasoilB">>,
       <<"Precio Gasoleo Premium", "Precio_GasoilPremium">>,
       <<"Precio Gasolina 95 E10", "Precio_95E10">>,
       <<"Precio Gasolina 98 E10", "Precio_98E10">> >>

\* ---------------------------------------------------------- Python values
PyVal(t, s, n, e) == [t |-> t, s |-> s, n |-> n, e |-> e]
None == PyVal("None", <<>>, 0, 0)
Str(s) == PyVal("str", s, 0, 0)
\* a JSON number of the body (json gives an int or a float, here n * 10^-e)
Num(n, e) == PyVal("float", <<>>, n, e)
\* an exception raised by an expression instead of a value
ValueError == PyVal("ValueError", <<>>, 0, 0)
AttributeError == PyVal("AttributeError", <<>>, 0, 0)
IsException(v) == v.t \in {"ValueError", "AttributeError"}
\* dict.get on a key the dict does not hold
Absent == PyVal("(absent)", <<>>, 0, 0)

\* `not x` of Python: None, "", 0 and 0.0 are falsy
Falsy(x) ==
    \/ x.t = "None"
    \/ x.t = "str" /\ x.s = <<>>
    \/ x.t = "float" /\ x.n = 0

\* ------------------------------------------------------------ str methods
IsSpace(c) == c \in {" ", "\t", "\n"}

RECURSIVE lstrip(_)
lstrip(s) == IF s # <<>> /\ IsSpace(Head(s)) THEN lstrip(Tail(s)) ELSE s

RECURSIVE rstrip(_)
rstrip(s) ==
    IF s # <<>> /\ IsSpace(s[Len(s)]) THEN rstrip(SubSeq(s, 1, Len(s) - 1)) ELSE s

strip(s) == rstrip(lstrip(s))

replace(s, old, new) == [i \in 1..Len(s) |-> IF s[i] = old THEN new ELSE s[i]]

\* ------------------------------------------------------------------ float
DigitChars == <<"0", "1", "2", "3", "4", "5", "6", "7", "8", "9">>
IsDigit(c) == \E i \in 1..Len(DigitChars) : DigitChars[i] = c
DigitVal(c) == (CHOOSE i \in 1..Len(DigitChars) : DigitChars[i] = c) - 1

RECURSIVE DecValue(_)
DecValue(ds) ==
    IF ds = <<>> THEN 0
    ELSE DecValue(SubSeq(ds, 1, Len(ds) - 1)) * 10 + DigitVal(ds[Len(ds)])

\* the float n * 10^-e in its shortest form (1.50 is 1.5; -0.0 == 0.0)
RECURSIVE Float(_, _)
Float(n, e) ==
    IF e > 0 /\ n % 10 = 0 THEN Float(n \div 10, e - 1) ELSE Num(n, e)

\* float(str) on strings of digits, '.', ',', '-', '+', blanks and letters
\* other than those of an exponent, inf or nan
float(s) ==
    LET t == strip(s)
        signed == t # <<>> /\ Head(t) \in {"-", "+"}
        body == IF signed THEN Tail(t) ELSE t
        dots == {i \in 1..Len(body) : body[i] = "."}
        wellFormed ==
            /\ \A i \in 1..Len(body) : IsDigit(body[i]) \/ body[i] = "."
            /\ Cardinality(dots) <= 1
            /\ \E i \in 1..Len(body) : IsDigit(body[i])
        mant == DecValue(SelectSeq(body, IsDigit))
        decimals == IF dots = {} THEN 0 ELSE Len(body) - (CHOOSE i \in dots : TRUE)
    IN  IF ~wellFormed THEN ValueError
        ELSE Float(IF signed /\ Head(t) = "-" THEN 0 - mant ELSE mant, decimals)

\* ------------------------------------------------------------- normalizers
clean_price(price_str) ==
    IF Falsy(price_str) THEN None
    ELSE IF price_str.t # "str" THEN AttributeError
    ELSE IF strip(price_str.s) = <<>> THEN None
    ELSE LET f == float(replace(price_str.s, ",", "."))
         IN  IF f = ValueError THEN None ELSE f

clean_coord(coord_str) ==
    IF Falsy(coord_str) THEN None
    ELSE IF coord_str.t # "str" THEN AttributeError
    ELSE LET f == float(strip(replace(coord_str.s, ",", ".")))
         IN  IF f = ValueError THEN None ELSE f

\* ------------------------------------------------------------------ dicts
\* a dict in insertion order: a sequence of [key, value] entries
DictSet(d, k, v) ==
    IF \E i \in 1..Len(d) : d[i].key = k
    THEN [i \in 1..Len(d) |-> IF d[i].key = k THEN [key |-> k, value |-> v] ELSE d[i]]
    ELSE Append(d, [key |-> k, value |-> v])

DictKeys(d) == [i \in 1..Len(d) |-> d[i].key]

DictGet(d, k) == d[CHOOSE i \in 1..Len(d) : d[i].key = k].value

\* estacion.get(key, default) on a station record, a function of field name
Get(estacion, key, default) ==
    IF estacion[key] = Absent THEN default ELSE estacion[key]

\* --------------------------------------------------------- station records
PriceKeys == {PRECIOS_MAP[i][1] : i \in 1..Len(PRECIOS_MAP)}
FieldKeys == {"Latitud", "Longitud (WGS84)", "Rótulo", "Dirección"} \cup PriceKeys

NoPrices == [k \in PriceKeys |-> Absent]

Estacion(lat, lon, rotulo, direccion, precios) ==
    [k \in FieldKeys |->
        CASE k = "Latitud" -> lat
          [] k = "Longitud (WGS84)" -> lon
          [] k = "Rótulo" -> rotulo
          [] k = "Dirección" -> direccion
          [] OTHER -> precios[k]]

S_4c5 == Str(<<"4", "0", ",", "5">>)
S_m3c7 == Str(<<"-", "3", ",", "7">>)
S_1c6 == Str(<<"1", ",", "6", "3", "0">>)
S_sp2p1 == Str(<<" ", "2", ".", "1", " ">>)

\* the records a served station list is made of
Estaciones ==
    { \* complete record
      Estacion(S_4c5, S_m3c7, Str(<<"R">>), Str(<<"D">>),
               [NoPrices EXCEPT !["Precio Gasolina 95 E5"] = S_1c6]),
      \* no label, no address, only the last price, blanks around the numbers
      Estacion(Str(<<"7">>), Str(<<" ", "2", ",", "5">>), Absent, Absent,
               [NoPrices EXCEPT !["Precio Gasolina 98 E10"] = S_sp2p1]),
      \* valid coordinates, no price field at all
      Estacion(S_4c5, S_m3c7, Str(<<"R">>), Absent, NoPrices),
      \* valid coordinates, every price present and invalid
      Estacion(S_4c5, S_m3c7, Absent, Str(<<"D">>),
               [NoPrices EXCEPT !["Precio Gasolina 95 E5"] = Str(<<>>),
                                !["Precio Gasolina 98 E5"] = Str(<<" ">>),
                                !["Precio Gasoleo A"] = Str(<<"x">>),
                                !["Precio Gasoleo B"] = None,
                                !["Precio Gasoleo Premium"] = Str(<<"1", ",", "2", ",", "3">>),
                                !["Precio Gasolina 95 E10"] = Num(0, 0),
                                !["Precio Gasolina 98 E10"] = Str(<<"1", " ", "2">>)]),
      \* latitude missing
      Estacion(Absent, S_m3c7, Absent, Absent,
               [NoPrices EXCEPT !["Precio Gasoleo A"] = S_1c6]),
      \* longitude not a number
      Estacion(S_4c5, Str(<<"x">>), Absent, Absent,
               [NoPrices EXCEPT !["Precio Gasoleo A"] = S_1c6]),
      \* latitude blank, longitude null
      Estacion(Str(<<" ">>), None, Absent, Absent,
               [NoPrices EXCEPT !["Precio Gasoleo A"] = S_1c6]),
      \* a falsy number among the prices, and a valid price
      Estacion(S_4c5, S_m3c7, Absent, Absent,
               [NoPrices EXCEPT !["Precio Gasoleo A"] = Num(0, 0),
                                !["Precio Gasoleo B"] = S_1c6]),
      \* the label is JSON null
      Estacion(S_4c5, S_m3c7, None, Str(<<"D">>),
               [NoPrices EXCEPT !["Precio Gasoleo Premium"] = S_1c6]),
      \* the latitude is a JSON number
      Estacion(Num(405, 1), S_m3c7, Absent, Absent,
               [NoPrices EXCEPT !["Precio Gasolina 95 E5"] = S_1c6]),
      \* a price is a JSON number
      Estacion(S_4c5, S_m3c7, Absent, Absent,
               [NoPrices EXCEPT !["Precio Gasolina 95 E5"] = S_1c6,
                                !["Precio Gasolina 98 E5"] = Num(1630, 3)]) }

RECURSIVE SeqsUpTo(_, _)
SeqsUpTo(S, n) ==
    IF n = 0 THEN {<<>>}
    ELSE LET shorter == SeqsUpTo(S, n - 1)
         IN  shorter \cup {Append(q, x) : q \in {r \in shorter : Len(r) = n - 1}, x \in S}

\* ------------------------------------------------------- served documents
\* what response.json() returns: None for the body null, a list, or a dict
\* with or without the key ListaEESSPrecio
Doc(t, hasLista, lista) == [t |-> t, hasLista |-> hasLista, lista |-> lista]
DataNone == Doc("None", FALSE, <<>>)
Unset == Doc("(unset)", FALSE, <<>>)
Docs ==
    {DataNone, Doc("list", FALSE, <<>>), Doc("dict", FALSE, <<>>)}
        \cup {Doc("dict", TRUE, l) : l \in SeqsUpTo(Estaciones, MaxRecords)}

\* ------------------------------------------------------------- the fetch
\* what one attempt can raise: requests.get (connection, timeout),
\* raise_for_status (HTTP status) and response.json (body is not JSON)
FailKinds == {"ConnectionError", "Timeout", "HTTPError", "JSONDecodeError"}

\* a handler that lets the JSON decode error through
IsRequestException_NoJson(kind) ==
    kind \in {"ConnectionError", "Timeout", "HTTPError"}

\* except requests.exceptions.RequestException: all four are subclasses
\* (JSONDecodeError through InvalidJSONError)
IsRequestException(kind) ==
    kind \in {"ConnectionError", "Timeout", "HTTPError", "JSONDecodeError"}

\* a pause after the last attempt too
ShouldSleep_Always(attempt) == attempt < MAX_RETRIES

\* if attempt < MAX_RETRIES - 1
ShouldSleep(attempt) == attempt < MAX_RETRIES - 1

\* for attempt in range(MAX_RETRIES): is there a next iteration
HasNext(attempt) == attempt + 1 < MAX_RETRIES

\* -------------------------------------------------------- the transform
\* data["ListaEESSPrecio"], which raises on a missing key
StationList_Subscript(d) ==
    IF d.t # "dict" THEN [exc |-> "TypeError", lista |-> <<>>]
    ELSE IF ~d.hasLista THEN [exc |-> "KeyError", lista |-> <<>>]
    ELSE [exc |-> "", lista |-> d.lista]

\* data.get("ListaEESSPrecio", []): [exc, lista]
StationList(d) ==
    IF d.t # "dict" THEN [exc |-> "AttributeError", lista |-> <<>>]
    ELSE [exc |-> "", lista |-> IF d.hasLista THEN d.lista ELSE <<>>]

\* a skip only when both coordinates are missing
MissingCoord_Both(lat, lon) == lat = None /\ lon = None

\* if lat is None or lon is None: continue
MissingCoord(lat, lon) == lat = None \/ lon = None

InitialProperties(estacion) ==
    << [key |-> "Rotulo", value |-> Get(estacion, "Rótulo", Str(<<"S", "/", "N">>))],
       [key |-> "Direccion", value |-> Get(estacion, "Dirección", Str(<<>>))] >>

\* for original_key, new_key in PRECIOS_MAP.items(), from entry i on
RECURSIVE PriceLoop(_, _, _, _)
PriceLoop(estacion, i, properties, has_valid_price) ==
    IF i > Len(PRECIOS_MAP)
    THEN [raised |-> FALSE, properties |-> properties,
          has_valid_price |-> has_valid_price]
    ELSE LET price == clean_price(Get(estacion, PRECIOS_MAP[i][1], None))
         IN  IF IsException(price)
             THEN [raised |-> TRUE, properties |-> properties,
                   has_valid_price |-> has_valid_price]
             ELSE PriceLoop(estacion, i + 1,
                            DictSet(properties, PRECIOS_MAP[i][2], price),
                            has_valid_price \/ price # None)

\* the coordinates in the order of the source
Geometry_LatFirst(lon, lat) == [coordinates |-> <<lat, lon>>, type |-> "Point"]

Geometry(lon, lat) == [coordinates |-> <<lon, lat>>, type |-> "Point"]

Feature(lon, lat, properties) ==
    [type |-> "Feature", geometry |-> Geometry(lon, lat), properties |-> properties]

GeoJSON(features) == [type |-> "FeatureCollection", features |-> features]

\* a write that keeps the features the file already holds
Dump_Append(previous, geojson) ==
    [geojson EXCEPT !.features = previous.features \o @]

\* open(OUTPUT_FILE, 'w') and json.dump: the previous content is discarded
Dump(previous, geojson) == geojson

\* ---------------------------------------------------------- output file
NoFile == [type |-> "(no file)", features |-> <<>>]
OldFile == GeoJSON(<<Feature(Num(1, 0), Num(2, 0), <<>>)>>)

NoError == [exc |-> "", at |-> ""]

\* -------------------------------------------------------------- the state
VARIABLES
    pc,           \* where process_data is
    attempt,      \* the loop variable of the retry loop
    data,         \* the local `data`
    estaciones,   \* the local `estaciones`
    idx,          \* how many records the for loop has gone through
    features,     \* the local `features`
    file,         \* the content of OUTPUT_FILE
    error,        \* the exception that ended the run, and where it was raised
    served,       \* the document the server answers with
    run,          \* the number of the current run
    lastOutcome,  \* history: how the latest attempt ended
    trace,        \* history: the attempts and pauses of this run, in order
    origin,       \* history: for each feature, the index of its record
    fileAtStart,  \* history: the content of OUTPUT_FILE when the run began
    outputs       \* history: what each completed run wrote

vars == <<pc, attempt, data, estaciones, idx, features, file, error, served, run,
          lastOutcome, trace, origin, fileAtStart, outputs>>

Init ==
    /\ pc = "request"
    /\ attempt = 0
    /\ data = DataNone
    /\ estaciones = <<>>
    /\ idx = 0
    /\ features = <<>>
    /\ file \in {NoFile, OldFile}
    /\ error = NoError
    /\ served = Unset
    /\ run = 1
    /\ lastOutcome = "none"
    /\ trace = <<>>
    /\ origin = <<>>
    /\ fileAtStart = file
    /\ outputs = <<>>

\* the end of one iteration of the retry loop that did not break
NextIteration ==
    IF HasNext(attempt)
    THEN /\ attempt' = attempt + 1
         /\ pc' = "request"
    ELSE /\ attempt' = attempt
         /\ pc' = "after_loop"

\* one attempt that raises
RequestFails(kind) ==
    /\ pc = "request"
    /\ trace' = Append(trace, "fail")
    /\ lastOutcome' = kind
    /\ IF ~IsRequestException(kind)
       THEN /\ pc' = "crashed"
            /\ error' = [exc |-> kind, at |-> "fetch"]
            /\ attempt' = attempt
       ELSE /\ error' = error
            /\ IF ShouldSleep(attempt)
               THEN pc' = "sleep" /\ attempt' = attempt
               ELSE NextIteration
    /\ UNCHANGED <<data, estaciones, idx, features, file, served, run, origin,
                   fileAtStart, outputs>>

\* time.sleep(RETRY_DELAY_SECONDS), then the next iteration
Sleep ==
    /\ pc = "sleep"
    /\ trace' = Append(trace, "sleep")
    /\ NextIteration
    /\ UNCHANGED <<data, estaciones, idx, features, file, error, served, run,
                   lastOutcome, origin, fileAtStart, outputs>>

\* one attempt that returns a parsed body: break
RequestSucceeds ==
    /\ pc = "request"
    /\ \E d \in IF served = Unset THEN Docs ELSE {served} :
          /\ served' = d
          /\ data' = d
    /\ trace' = Append(trace, "ok")
    /\ lastOutcome' = "ok"
    /\ pc' = "after_loop"
    /\ UNCHANGED <<attempt, estaciones, idx, features, file, error, run, origin,
                   fileAtStart, outputs>>

\* if data is None: print the failure and return
ReportFailure ==
    /\ pc = "after_loop"
    /\ data = DataNone
    /\ pc' = "failed"
    /\ UNCHANGED <<attempt, data, estaciones, idx, features, file, error, served,
                   run, lastOutcome, trace, origin, fileAtStart, outputs>>

\* estaciones = data.get("ListaEESSPrecio", []); features = []
BeginTransform ==
    /\ pc = "after_loop"
    /\ data # DataNone
    /\ LET l == StationList(data)
       IN  IF l.exc # ""
           THEN /\ pc' = "crashed"
                /\ error' = [exc |-> l.exc, at |-> "data.get"]
                /\ UNCHANGED <<estaciones, features, idx>>
           ELSE /\ pc' = "transform"
                /\ estaciones' = l.lista
                /\ features' = <<>>
                /\ idx' = 0
                /\ error' = error
    /\ UNCHANGED <<attempt, data, file, served, run, lastOutcome, trace, origin,
                   fileAtStart, outputs>>

Crash(exc, at) ==
    /\ pc' = "crashed"
    /\ error' = [exc |-> exc, at |-> at]
    /\ UNCHANGED <<idx, features, origin>>

\* one pass of the body of `for estacion in estaciones`
ProcessRecord ==
    /\ pc = "transform"
    /\ idx < Len(estaciones)
    /\ LET estacion == estaciones[idx + 1]
           lat == clean_coord(Get(estacion, "Latitud", None))
           lon == clean_coord(Get(estacion, "Longitud (WGS84)", None))
           r == PriceLoop(estacion, 1, InitialProperties(estacion), FALSE)
       IN  IF IsException(lat) THEN Crash(lat.t, "clean_coord")
           ELSE IF IsException(lon) THEN Crash(lon.t, "clean_coord")
           ELSE IF MissingCoord(lat, lon)
           THEN /\ idx' = idx + 1
                /\ UNCHANGED <<pc, features, origin, error>>
           ELSE IF r.raised THEN Crash("AttributeError", "clean_price")
           ELSE /\ idx' = idx + 1
                /\ IF r.has_valid_price
                   THEN /\ features' = Append(features, Feature(lon, lat, r.properties))
                        /\ origin' = Append(origin, idx + 1)
                   ELSE UNCHANGED <<features, origin>>
                /\ UNCHANGED <<pc, error>>
    /\ UNCHANGED <<attempt, data, estaciones, file, served, run, lastOutcome, trace,
                   fileAtStart, outputs>>

\* with open(OUTPUT_FILE, 'w') ...: json.dump(geojson, f, ...)
WriteFile ==
    /\ pc = "transform"
    /\ idx = Len(estaciones)
    /\ file' = Dump(file, GeoJSON(features))
    /\ outputs' = Append(outputs, file')
    /\ pc' = "done"
    /\ UNCHANGED <<attempt, data, estaciones, idx, features, error, served, run,
                   lastOutcome, trace, origin, fileAtStart>>

\* the program is started again; the file and the server are what is left
Rerun ==
    /\ pc \in {"done", "failed", "crashed"}
    /\ run < MaxRuns
    /\ run' = run + 1
    /\ pc' = "request"
    /\ attempt' = 0
    /\ data' = DataNone
    /\ estaciones' = <<>>
    /\ idx' = 0
    /\ features' = <<>>
    /\ error' = NoError
    /\ lastOutcome' = "none"
    /\ trace' = <<>>
    /\ origin' = <<>>
    /\ fileAtStart' = file
    /\ UNCHANGED <<file, served, outputs>>

Next ==
    \/ \E kind \in FailKinds : RequestFails(kind)
    \/ Sleep
    \/ RequestSucceeds
    \/ ReportFailure
    \/ BeginTransform
    \/ ProcessRecord
    \/ WriteFile
    \/ Rerun

Spec == Init /\ [][Next]_vars

\* ------------------------------------------------------------ properties
Count(tr, x) == Cardinality({i \in 1..Len(tr) : tr[i] = x})

\* n attempts with one pause between consecutive attempts, the last one `last`
RetryTrace(n, last) ==
    [i \in 1..(2 * n - 1) |->
        IF i = 2 * n - 1 THEN last ELSE IF i % 2 = 1 THEN "fail" ELSE "sleep"]

LoopOver == pc \notin {"request", "sleep"}

IsNumber(v) == v.t = "float"

CoordsAccepted(estacion) ==
    /\ IsNumber(clean_coord(Get(estacion, "Latitud", None)))
    /\ IsNumber(clean_coord(Get(estacion, "Longitud (WGS84)", None)))

SomePriceAccepted(estacion) ==
    \E k \in PriceKeys : IsNumber(clean_price(Get(estacion, k, None)))

InTransform ==
    \/ pc \in {"transform", "done"}
    \/ pc = "crashed" /\ error.at \in {"clean_coord", "clean_price"}

\* C1: when every attempt failed, the run made exactly MAX_RETRIES attempts
\* with a pause after each but the last, is at (or about to reach) the
\* terminal failure, has not run the transform and has left the output file
\* as it was when the run began.
C1_Exhaustion ==
    (LoopOver /\ Count(trace, "ok") = 0) =>
        /\ trace = RetryTrace(MAX_RETRIES, "fail")
        /\ Count(trace, "fail") = 5
        /\ Count(trace, "sleep") = 4
        /\ pc \in {"after_loop", "failed"}
        /\ data = DataNone
        /\ estaciones = <<>> /\ features = <<>> /\ idx = 0
        /\ file = fileAtStart

C1_Witness ==
    /\ pc = "failed"
    /\ Count(trace, "ok") = 0
    /\ fileAtStart # NoFile
    /\ file = fileAtStart

\* C2: when the first N-1 attempts fail and attempt N succeeds, the run made
\* exactly N attempts with one pause between consecutive attempts (N-1
\* pauses), none after the success, and the payload of attempt N went to the
\* transform.
C2_RetryThenSuccess ==
    (LoopOver /\ Count(trace, "ok") > 0) =>
        LET N == Count(trace, "fail") + 1
        IN  /\ N <= MAX_RETRIES
            /\ trace = RetryTrace(N, "ok")
            /\ Count(trace, "sleep") = N - 1
            /\ data = served
            /\ pc # "failed"
            /\ pc \in {"transform", "done"} => estaciones = StationList(served).lista

\* C3: of the records the loop has gone through, exactly those whose two
\* coordinates were accepted and that have at least one accepted price have
\* a Feature, one each and in the order of the list; the written file holds
\* these Features.
C3_EmissionRule ==
    InTransform =>
        /\ Len(origin) = Len(features)
        /\ \A j \in 1..Len(origin) : origin[j] \in 1..idx
        /\ \A j, k \in 1..Len(origin) : j < k => origin[j] < origin[k]
        /\ \A i \in 1..idx :
              (\E j \in 1..Len(origin) : origin[j] = i)
                  <=> (CoordsAccepted(estaciones[i]) /\ SomePriceAccepted(estaciones[i]))
        /\ pc = "done" => idx = Len(estaciones) /\ file.features = features

C3_Witness ==
    /\ pc = "done"
    /\ Len(file.features) = 1
    /\ \E i \in 1..Len(estaciones) :
          ~CoordsAccepted(estaciones[i]) /\ SomePriceAccepted(estaciones[i])

\* C4: an attempt that ends in a JSON decode error is handled as one that
\* ends in a network error: nothing propagates, data stays unset, the run
\* pauses if an attempt remains and otherwise leaves the loop, and after the
\* pause the request is made again.
C4_MalformedJsonRetried ==
    [][ /\ (pc = "request" /\ lastOutcome' \in FailKinds /\ trace' # trace) =>
            /\ pc' = IF attempt + 1 < MAX_RETRIES THEN "sleep" ELSE "after_loop"
            /\ attempt' = attempt
            /\ data' = data
            /\ error' = NoError
            /\ file' = file
        /\ pc = "sleep" =>
            /\ pc' = "request"
            /\ attempt' = attempt + 1
            /\ Count(trace', "sleep") = Count(trace, "sleep") + 1 ]_vars

C4_Witness ==
    /\ pc = "request"
    /\ attempt >= 1
    /\ lastOutcome = "JSONDecodeError"
    /\ Count(trace, "sleep") = attempt

\* C5: no value of a latitude, longitude or price field makes clean_coord or
\* clean_price raise, so no run ends inside the loop over the records.
C5_NoRecordErrorPropagates ==
    ~(pc = "crashed" /\ error.at \in {"clean_coord", "clean_price"})

\* C6: every Feature's geometry is a Point whose coordinates are the
\* normalized longitude and then the normalized latitude of the record it
\* was made from.
C6_CoordinateOrder ==
    InTransform =>
        \A j \in 1..Len(features) :
            LET estacion == estaciones[origin[j]]
            IN  /\ features[j].geometry.type = "Point"
                /\ features[j].geometry.coordinates =
                       <<clean_coord(estacion["Longitud (WGS84)"]),
                         clean_coord(estacion["Latitud"])>>
                /\ (estacion["Latitud"] = S_4c5 /\ estacion["Longitud (WGS84)"] = S_m3c7)
                       => features[j].geometry.coordinates = <<Num(-37, 1), Num(405, 1)>>

C6_Witness ==
    /\ pc = "done"
    /\ Len(file.features) = 2
    /\ file.features[1].geometry.coordinates = <<Num(25, 1), Num(7, 0)>>
    /\ file.features[2].geometry.coordinates = <<Num(-37, 1), Num(405, 1)>>

\* C7: every Feature's properties hold exactly the keys Rotulo, Direccion
\* and the seven renamed price keys; Rotulo and Direccion are strings ("S/N"
\* and "" when the record has none) and each price is a float or null.
C7_PropertiesShape ==
    \A j \in 1..Len(features) :
        LET properties == features[j].properties
            estacion == estaciones[origin[j]]
        IN  /\ DictKeys(properties) =
                   <<"Rotulo", "Direccion">> \o [i \in 1..Len(PRECIOS_MAP) |-> PRECIOS_MAP[i][2]]
            /\ Len(properties) = 9
            /\ DictGet(properties, "Rotulo").t = "str"
            /\ DictGet(properties, "Direccion").t = "str"
            /\ estacion["Rótulo"] = Absent
                   => DictGet(properties, "Rotulo") = Str(<<"S", "/", "N">>)
            /\ estacion["Dirección"] = Absent
                   => DictGet(properties, "Direccion") = Str(<<>>)
            /\ \A i \in 1..Len(PRECIOS_MAP) :
                   DictGet(properties, PRECIOS_MAP[i][2]).t \in {"float", "None"}

\* C8: a fetched document without the key ListaEESSPrecio is zero records:
\* nothing is raised, and the file written is a FeatureCollection with no
\* features, whatever the file held before.
C8_MissingListKey ==
    (LoopOver /\ data = Doc("dict", FALSE, <<>>)) =>
        /\ pc \in {"after_loop", "transform", "done"}
        /\ error = NoError
        /\ pc # "after_loop" => estaciones = <<>> /\ features = <<>>
        /\ pc = "done" => file = [type |-> "FeatureCollection", features |-> <<>>]

C8_Witness ==
    /\ pc = "done"
    /\ data = Doc("dict", FALSE, <<>>)
    /\ fileAtStart = OldFile
    /\ file = [type |-> "FeatureCollection", features |-> <<>>]

\* C9: the runs that complete on the same raw document write the same file,
\* whatever the file held before each of them.
C9_Idempotence ==
    /\ \A i, j \in 1..Len(outputs) : outputs[i] = outputs[j]
    /\ pc = "done" => file = outputs[Len(outputs)]

C9_Witness ==
    /\ pc = "done"
    /\ Len(outputs) = 2
    /\ Len(file.features) = 2
    /\ fileAtStart = outputs[1]
    /\ run = 2

\* C10: the terminal failure is reported only after MAX_RETRIES failed
\* attempts, and a run in which an attempt succeeded goes on to the
\* transform and, once over, has written the output file.
C10_FailureOnlyOnExhaustion ==
    /\ pc = "failed" =>
          Count(trace, "ok") = 0 /\ Count(trace, "fail") = MAX_RETRIES
    /\ (Count(trace, "ok") > 0 /\ pc \in {"done", "failed", "crashed"}) =>
          pc = "done" /\ file = GeoJSON(features)

====
